---- MODULE Spec2Model ----
(***************************************************************************)
(* A model of fossilize: the multi-platform build orchestrator             *)
(* (src/src/impl.ts), the Node.js version resolver and the runtime binary  *)
(* cache (src/src/node-util.ts), the archive readers                       *)
(* (src/src/archive-util.ts).                                              *)
(*                                                                         *)
(* The specifications share the variables of the module:                   *)
(*   Spec         the platform pipelines of one build run                  *)
(*   SpecPrepare  the build run before its pipelines start                 *)
(*   SpecResolve  concurrent resolveNodeVersion calls in one process       *)
(*   SpecIndex    the resolutions against one version index                *)
(*   SpecCache    getNodeBinary calls against a cache directory            *)
(*   SpecArchive  unzip and untar on one archive                           *)
(* Each specification keeps the variables of the others at their idle      *)
(* values.                                                                 *)
(***************************************************************************)
EXTENDS Naturals, Sequences, FiniteSets, TLC

VARIABLES
    \* ---- build run (impl.ts)
    platforms,        \* the requested platform list, in submission order
    sign,             \* flags.sign
    env,              \* the APPLE_* variables that are set in process.env
    concurrencyLimit, \* flags.concurrencyLimit
    resolves,         \* resolveNodeVersion(flags.nodeVersion) settles with a version
    pc,               \* pc[i]: the step pipeline i is awaiting
    orch,             \* where the command function (default export) is
    exited,           \* process.exit() has been called
    outFile,          \* outFile[p]: state of <outDir>/<name>-<p><ext>
    zipFile,          \* zipFile[p]: <binary>.zip exists
    interFiles,       \* the intermediate files (SEA config, blob) in outDir
    toolCalls,        \* <<i, tool>>: external tools pipeline i has invoked
    warnings,         \* <<i, kind>>: warnings pipeline i has printed
    \* ---- version resolver (node-util.ts)
    processVersion,   \* process.version of the running Node.js, without "v"
    nodeIndex,        \* the version index nodejs.org serves, when it is fixed
    VERSION_CACHE,    \* _VERSION_CACHE: alias -> index into promises (0: none)
    promises,         \* the promises _resolveNodeVersion has returned
    calls,            \* the resolveNodeVersion calls made so far
    \* ---- runtime binary cache (node-util.ts)
    dirFile,          \* dirFile[d][k]: the file of key k in directory d
    staging,          \* the staging directories (mkdtemp) that exist
    cacheDir,         \* the cacheDir argument of the process's calls, or "null"
    hasTarget,        \* the calls pass a targetPath
    gb,               \* gb[c]: the state of getNodeBinary call c
    \* ---- archive extraction (archive-util.ts)
    archive,          \* the entries of the archive, in archive order
    targetFile,       \* the entry name asked for
    unzipCall,        \* the state of the unzip call on the archive as ZIP
    untarCall,        \* the state of the untar call on the archive as TAR+XZ
    \* ---- preparation of a build run (impl.ts, before the pipelines)
    flags,            \* the command's flags and its entrypoint
    prep              \* the state of the command function before Promise.all

buildVars == <<platforms, sign, env, concurrencyLimit, resolves, pc, orch, exited,
               outFile, zipFile, interFiles, toolCalls, warnings>>
resolveInput == <<processVersion, nodeIndex>>
resolveVars == <<resolveInput, VERSION_CACHE, promises, calls>>
cacheVars == <<dirFile, staging, cacheDir, hasTarget, gb>>
buildInput == <<platforms, sign, env, concurrencyLimit, resolves>>
archiveVars == <<archive, targetFile, unzipCall, untarCall>>
prepVars == <<flags, prep>>
elsewhere == <<archiveVars, prepVars>>
vars == <<buildVars, resolveVars, cacheVars, elsewhere, archiveVars, prepVars>>

(***************************************************************************)
(* Bounds of the model.                                                    *)
(***************************************************************************)
MaxPlatforms == 2
MaxLimit == 2

(***************************************************************************)
(* Platform identifiers: <os>-<arch>.  The code never parses them beyond   *)
(* the startsWith("darwin") / startsWith("win") checks.                    *)
(***************************************************************************)
Platform(os, arch) == [os |-> os, arch |-> arch]
LinuxX64 == Platform("linux", "x64")
DarwinArm64 == Platform("darwin", "arm64")
WinX64 == Platform("win", "x64")
PlatformIds == {LinuxX64, DarwinArm64, WinX64}

startsWithDarwin(p) == p.os = "darwin"
startsWithWin(p) == p.os \in {"win", "win32"}

SigningCredentials == {"APPLE_TEAM_ID", "APPLE_CERT_PATH", "APPLE_CERT_PASSWORD"}
AppleVariables == SigningCredentials \cup {"APPLE_API_KEY_PATH"}

(***************************************************************************)
(* The build run: impl.ts, from the Promise.all over the platforms on.     *)
(***************************************************************************)
SEA_CONFIG_JSON == "sea-config.json"
SEA_BLOB == "sea.blob"

Pipelines == 1..Len(platforms)
Terminal(i) == pc[i] \in {"done", "failed"}
InFlight(i) == pc[i] \notin {"queued", "done", "failed"}
activeCount == Cardinality({i \in Pipelines : InFlight(i)})

\* The limiter: a pipeline starts when fewer than concurrencyLimit are active
SlotFreeUnbounded == TRUE
SlotFree == activeCount < concurrencyLimit

\* The limiter's queue: pipelines start in submission order
NextQueuedAnyOrder(i) == pc[i] = "queued"
NextQueued(i) == pc[i] = "queued" /\ \A j \in 1..(i - 1) : pc[j] # "queued"

\* Promise.all rejects with the first rejection, and the command function with it
reject(i) == IF orch = "awaiting" THEN "threw" ELSE orch

\* Promise.all resolves when the last pipeline has resolved; the command
\* function then starts the removal of the intermediate files
resolveAtFirst(i) == IF orch = "awaiting" THEN "cleanup" ELSE orch
resolve(i) ==
    IF orch = "awaiting" /\ \A j \in Pipelines \ {i} : pc[j] = "done"
    THEN "cleanup" ELSE orch

\* A pipeline's promise rejects: an awaited call threw
Throw(i) ==
    /\ pc' = [pc EXCEPT ![i] = "failed"]
    /\ orch' = reject(i)

\* A pipeline's async function returns
Return(i) ==
    /\ pc' = [pc EXCEPT ![i] = "done"]
    /\ orch' = resolve(i)

\* The branch a pipeline takes after chmod, lines 187-218
credentialsMissingTeamOnly(p) == "APPLE_TEAM_ID" \notin env
credentialsMissing(p) == SigningCredentials \ env # {}
signingBranchWithoutFlag(p) ==
    IF startsWithWin(p) THEN "windows-unsupported"
    ELSE IF startsWithDarwin(p)
         THEN (IF credentialsMissing(p) THEN "missing-credentials" ELSE "sign")
    ELSE "none"
signingBranchNoWindowsCase(p) ==
    IF ~sign THEN (IF startsWithDarwin(p) THEN "unsigned-macos" ELSE "skip")
    ELSE IF startsWithDarwin(p)
         THEN (IF credentialsMissing(p) THEN "missing-credentials" ELSE "sign")
    ELSE "none"
signingBranch(p) ==
    IF ~sign THEN (IF startsWithDarwin(p) THEN "unsigned-macos" ELSE "skip")
    ELSE IF startsWithWin(p) THEN "windows-unsupported"
    ELSE IF startsWithDarwin(p)
         THEN (IF credentialsMissing(p) THEN "missing-credentials" ELSE "sign")
    ELSE "none"
branchWarning(i, b) ==
    IF b \in {"unsigned-macos", "windows-unsupported", "missing-credentials"}
    THEN {<<i, b>>} ELSE {}

StartPipeline(i) ==
    /\ ~exited
    /\ NextQueued(i)
    /\ SlotFree
    /\ pc' = [pc EXCEPT ![i] = "getNodeBinary"]
    /\ UNCHANGED <<buildInput, resolveVars, cacheVars, elsewhere, orch, exited, outFile,
                   zipFile, interFiles, toolCalls, warnings>>

\* getNodeBinary returns the working copy; the blob is read next. It returns
\* only when its resolveNodeVersion call (node-util.ts:346) has not thrown:
\* the rejected promise of a failed resolution is the one every call gets.
getNodeBinaryReturnUnresolved(i) ==
    /\ ~exited
    /\ pc[i] = "getNodeBinary"
    /\ outFile' = [outFile EXCEPT ![platforms[i]] = "copied"]
    /\ pc' = [pc EXCEPT ![i] = "readBlob"]
    /\ UNCHANGED <<buildInput, resolveVars, cacheVars, elsewhere, orch, exited,
                   zipFile, interFiles, toolCalls, warnings>>
getNodeBinaryReturn(i) ==
    /\ ~exited
    /\ pc[i] = "getNodeBinary"
    /\ resolves
    /\ outFile' = [outFile EXCEPT ![platforms[i]] = "copied"]
    /\ pc' = [pc EXCEPT ![i] = "readBlob"]
    /\ UNCHANGED <<buildInput, resolveVars, cacheVars, elsewhere, orch, exited,
                   zipFile, interFiles, toolCalls, warnings>>

getNodeBinaryThrow(i) ==
    /\ ~exited
    /\ pc[i] = "getNodeBinary"
    /\ Throw(i)
    /\ UNCHANGED <<buildInput, resolveVars, cacheVars, elsewhere, exited, outFile,
                   zipFile, interFiles, toolCalls, warnings>>

\* fs.readFile(blobPath) returns; inject is called
readBlobReturnChmodFirst(i) ==
    /\ ~exited
    /\ pc[i] = "readBlob"
    /\ SEA_BLOB \in interFiles
    /\ toolCalls' = toolCalls \cup {<<i, "chmod">>}
    /\ pc' = [pc EXCEPT ![i] = "chmod"]
    /\ UNCHANGED <<buildInput, resolveVars, cacheVars, elsewhere, orch, exited, outFile,
                   zipFile, interFiles, warnings>>
readBlobReturn(i) ==
    /\ ~exited
    /\ pc[i] = "readBlob"
    /\ SEA_BLOB \in interFiles
    /\ pc' = [pc EXCEPT ![i] = "inject"]
    /\ UNCHANGED <<buildInput, resolveVars, cacheVars, elsewhere, orch, exited, outFile,
                   zipFile, interFiles, toolCalls, warnings>>

readBlobThrow(i) ==
    /\ ~exited
    /\ pc[i] = "readBlob"
    /\ Throw(i)
    /\ UNCHANGED <<buildInput, resolveVars, cacheVars, elsewhere, exited, outFile,
                   zipFile, interFiles, toolCalls, warnings>>

\* inject returns; run("chmod", "+x", binary) is called
injectReturn(i) ==
    /\ ~exited
    /\ pc[i] = "inject"
    /\ outFile' = [outFile EXCEPT ![platforms[i]] = "injected"]
    /\ toolCalls' = toolCalls \cup {<<i, "chmod">>}
    /\ pc' = [pc EXCEPT ![i] = "chmod"]
    /\ UNCHANGED <<buildInput, resolveVars, cacheVars, elsewhere, orch, exited,
                   zipFile, interFiles, warnings>>

injectThrow(i) ==
    /\ ~exited
    /\ pc[i] = "inject"
    /\ Throw(i)
    /\ UNCHANGED <<buildInput, resolveVars, cacheVars, elsewhere, exited, outFile,
                   zipFile, interFiles, toolCalls, warnings>>

\* run(cmd, ...args), lines 45-50: the external process exited nonzero and
\* run calls process.exit with its code
runExitNonzero(i) ==
    /\ ~exited
    /\ pc[i] \in {"chmod", "sign", "zip", "notarize"}
    /\ exited' = TRUE
    /\ pc' = [pc EXCEPT ![i] = "failed"]
    /\ UNCHANGED <<buildInput, resolveVars, cacheVars, elsewhere, orch, outFile, zipFile,
                   interFiles, toolCalls, warnings>>

\* chmod exited 0: the binary is executable; lines 187-232
chmodExit0(i) ==
    LET p == platforms[i]
        b == signingBranch(p)
    IN  /\ ~exited
        /\ pc[i] = "chmod"
        /\ outFile' = [outFile EXCEPT ![p] = "executable"]
        /\ warnings' = warnings \cup branchWarning(i, b)
        /\ IF b = "sign"
           THEN /\ toolCalls' = toolCalls \cup {<<i, "rcodesign sign">>}
                /\ pc' = [pc EXCEPT ![i] = "sign"]
                /\ orch' = orch
           ELSE /\ toolCalls' = toolCalls
                /\ Return(i)
        /\ UNCHANGED <<buildInput, resolveVars, cacheVars, elsewhere, exited, zipFile,
                       interFiles>>

\* rcodesign sign exited 0; lines 233-242
signExit0(i) ==
    LET p == platforms[i]
    IN  /\ ~exited
        /\ pc[i] = "sign"
        /\ outFile' = [outFile EXCEPT ![p] = "signed"]
        /\ IF "APPLE_API_KEY_PATH" \notin env
           THEN /\ warnings' = warnings \cup {<<i, "missing-notarization-key">>}
                /\ toolCalls' = toolCalls
                /\ Return(i)
           ELSE /\ warnings' = warnings
                /\ toolCalls' = toolCalls \cup {<<i, "zip">>}
                /\ pc' = [pc EXCEPT ![i] = "zip"]
                /\ orch' = orch
        /\ UNCHANGED <<buildInput, resolveVars, cacheVars, elsewhere, exited, zipFile,
                       interFiles>>

\* zip exited 0; rcodesign notary-submit is run, lines 243-250
zipExit0(i) ==
    /\ ~exited
    /\ pc[i] = "zip"
    /\ zipFile' = [zipFile EXCEPT ![platforms[i]] = TRUE]
    /\ toolCalls' = toolCalls \cup {<<i, "rcodesign notary-submit">>}
    /\ pc' = [pc EXCEPT ![i] = "notarize"]
    /\ UNCHANGED <<buildInput, resolveVars, cacheVars, elsewhere, orch, exited, outFile,
                   interFiles, warnings>>

\* notary-submit exited 0; fs.rm(zipFile) is awaited, line 251
notarizeExit0(i) ==
    /\ ~exited
    /\ pc[i] = "notarize"
    /\ pc' = [pc EXCEPT ![i] = "rmZip"]
    /\ UNCHANGED <<buildInput, resolveVars, cacheVars, elsewhere, orch, exited, outFile,
                   zipFile, interFiles, toolCalls, warnings>>

rmZipSkipped(i) ==
    /\ ~exited
    /\ pc[i] = "rmZip"
    /\ Return(i)
    /\ UNCHANGED <<buildInput, resolveVars, cacheVars, elsewhere, exited, outFile, zipFile,
                   interFiles, toolCalls, warnings>>
rmZipReturn(i) ==
    /\ ~exited
    /\ pc[i] = "rmZip"
    /\ zipFile[platforms[i]]
    /\ zipFile' = [zipFile EXCEPT ![platforms[i]] = FALSE]
    /\ Return(i)
    /\ UNCHANGED <<buildInput, resolveVars, cacheVars, elsewhere, exited, outFile,
                   interFiles, toolCalls, warnings>>

rmZipThrow(i) ==
    /\ ~exited
    /\ pc[i] = "rmZip"
    /\ Throw(i)
    /\ UNCHANGED <<buildInput, resolveVars, cacheVars, elsewhere, exited, outFile, zipFile,
                   interFiles, toolCalls, warnings>>

\* Line 255: both intermediate files are removed and the command returns
cleanupReturn ==
    /\ ~exited
    /\ orch = "cleanup"
    /\ interFiles' = {}
    /\ orch' = "returned"
    /\ UNCHANGED <<buildInput, resolveVars, cacheVars, elsewhere, pc, exited, outFile,
                   zipFile, toolCalls, warnings>>

\* Line 255: one of the two fs.rm calls rejects, and the command with it
cleanupThrow ==
    /\ ~exited
    /\ orch = "cleanup"
    /\ \E left \in (SUBSET interFiles) \ {{}} : interFiles' = left
    /\ orch' = "threw"
    /\ UNCHANGED <<buildInput, resolveVars, cacheVars, elsewhere, pc, exited, outFile,
                   zipFile, toolCalls, warnings>>

\* The exit status of the run, once it has one
runStatus ==
    IF exited \/ orch = "threw" THEN "failure"
    ELSE IF orch = "returned" THEN "success"
    ELSE "running"

PlatformLists ==
    UNION {[1..n -> PlatformIds] : n \in 1..MaxPlatforms}

ResolveIdle ==
    /\ processVersion = <<>>
    /\ nodeIndex = <<>>
    /\ VERSION_CACHE = <<>>
    /\ promises = <<>>
    /\ calls = <<>>

ArchiveIdle ==
    /\ archive = <<>>
    /\ targetFile = ""
    /\ unzipCall = <<>>
    /\ untarCall = <<>>

PrepareIdle ==
    /\ flags = <<>>
    /\ prep = <<>>

ElsewhereIdle == ArchiveIdle /\ PrepareIdle

CacheIdle ==
    /\ dirFile = <<>>
    /\ staging = {}
    /\ cacheDir = "null"
    /\ hasTarget = FALSE
    /\ gb = <<>>

Init ==
    /\ platforms \in PlatformLists
    /\ sign \in BOOLEAN
    /\ env \in SUBSET AppleVariables
    /\ concurrencyLimit \in 1..MaxLimit
    /\ resolves \in BOOLEAN
    /\ pc = [i \in Pipelines |-> "queued"]
    /\ orch = "awaiting"
    /\ exited = FALSE
    /\ outFile = [p \in PlatformIds |-> "none"]
    /\ zipFile = [p \in PlatformIds |-> FALSE]
    /\ interFiles = {SEA_CONFIG_JSON, SEA_BLOB}
    /\ toolCalls = {}
    /\ warnings = {}
    /\ ResolveIdle
    /\ CacheIdle
    /\ ElsewhereIdle

Next ==
    \/ \E i \in Pipelines : StartPipeline(i)
    \/ \E i \in Pipelines : getNodeBinaryReturn(i)
    \/ \E i \in Pipelines : getNodeBinaryThrow(i)
    \/ \E i \in Pipelines : readBlobReturn(i)
    \/ \E i \in Pipelines : readBlobThrow(i)
    \/ \E i \in Pipelines : injectReturn(i)
    \/ \E i \in Pipelines : injectThrow(i)
    \/ \E i \in Pipelines : chmodExit0(i)
    \/ \E i \in Pipelines : runExitNonzero(i)
    \/ \E i \in Pipelines : signExit0(i)
    \/ \E i \in Pipelines : zipExit0(i)
    \/ \E i \in Pipelines : notarizeExit0(i)
    \/ \E i \in Pipelines : rmZipReturn(i)
    \/ \E i \in Pipelines : rmZipThrow(i)
    \/ cleanupReturn
    \/ cleanupThrow

Spec == Init /\ [][Next]_vars

(***************************************************************************)
(* Claims about the build run (specification Spec).                        *)
(***************************************************************************)
SigningTools == {"rcodesign sign", "zip", "rcodesign notary-submit"}
SigningSteps == {"sign", "zip", "notarize", "rmZip"}

C2_SiblingsNotAborted ==
    \A i, j \in Pipelines : (pc[i] = "failed" /\ InFlight(j)) => ~exited

\* C3: the command function returns or throws only after every requested
\* pipeline is in a terminal state.
C3_ReturnsAfterAllTerminal ==
    orch \in {"returned", "threw"} => \A i \in Pipelines : Terminal(i)

\* C4: the run's final status is failure exactly when some pipeline failed,
\* and the output files of the completed pipelines are then still there.
C4_FailureIffPipelineFailed ==
    runStatus # "running" =>
        /\ runStatus = "failure" <=> \E i \in Pipelines : pc[i] = "failed"
        /\ runStatus = "failure" =>
               \A i \in Pipelines :
                   pc[i] = "done" => outFile[platforms[i]] # "none"

\* C9 as stated: with signing requested and a signing credential absent, a
\* macOS pipeline that terminates has failed.
C9_MissingCredentialsFail ==
    \A i \in Pipelines :
        (sign /\ startsWithDarwin(platforms[i]) /\ SigningCredentials \ env # {}
              /\ Terminal(i))
        => pc[i] = "failed"

\* C9 as amended: with signing requested and a signing credential absent, a
\* macOS pipeline never invokes the signing or the notarization tool, and it
\* has printed the missing-credentials warning exactly when it has
\* terminated in success.
C9_MissingCredentialsWarn ==
    \A i \in Pipelines :
        (sign /\ startsWithDarwin(platforms[i]) /\ SigningCredentials \ env # {})
        => /\ \A t \in SigningTools : <<i, t>> \notin toolCalls
           /\ pc[i] \notin SigningSteps
           /\ pc[i] = "done" <=> <<i, "missing-credentials">> \in warnings

C9_Witness ==
    \E i, j \in Pipelines :
        /\ sign /\ SigningCredentials \ env # {}
        /\ platforms[i] = DarwinArm64 /\ platforms[j] = LinuxX64
        /\ pc[i] = "done" /\ <<i, "missing-credentials">> \in warnings
        /\ outFile[DarwinArm64] = "executable"
        /\ pc[j] = "done" /\ outFile[LinuxX64] = "executable"
        /\ runStatus = "success"

\* C10: with signing requested, a Windows pipeline never invokes the signing
\* or the notarization tool, and it has printed the unsupported-on-Windows
\* warning exactly when it has terminated in success.
C10_WindowsSigningSkipped ==
    \A i \in Pipelines :
        (sign /\ startsWithWin(platforms[i]))
        => /\ \A t \in SigningTools : <<i, t>> \notin toolCalls
           /\ pc[i] \notin SigningSteps
           /\ pc[i] = "done" <=> <<i, "windows-unsupported">> \in warnings

C10_Witness ==
    \E i \in Pipelines :
        /\ sign /\ platforms[i] = WinX64
        /\ pc[i] = "done" /\ <<i, "windows-unsupported">> \in warnings
        /\ outFile[WinX64] = "executable"
        /\ runStatus = "success"

\* C11: a pipeline that failed after invoking an external tool failed by an
\* error of that one call: run has not ended the process.
C11_RunFailureIsCallError ==
    \A i \in Pipelines :
        (pc[i] = "failed" /\ \E t \in {"chmod"} \cup SigningTools : <<i, t>> \in toolCalls)
        => ~exited

\* C20: a run whose pipelines have all completed does not fail: a failed
\* removal of the intermediate files is not a failure of the run.
C20_CleanupNeverEscalates ==
    (\A i \in Pipelines : pc[i] = "done") => runStatus # "failure"

(***************************************************************************)
(* The version resolver: node-util.ts, lines 273-332.                      *)
(*                                                                         *)
(* A version is the sequence of its numeric components.  An alias is       *)
(* "local", "latest", "lts", some other word, or a numeric alias: one to   *)
(* three components, with or without a leading "v".                        *)
(***************************************************************************)
MIN_SEA_MAJOR == 20
MaxCalls == 2
MaxIndexLen == 2

Word(w) == [name |-> w, v |-> FALSE, bits |-> <<>>]
Numeric(v, bits) == [name |-> "numeric", v |-> v, bits |-> bits]

NodeVersions == {<<18, 1, 0>>, <<20, 0, 0>>, <<20, 1, 0>>}
Aliases ==
    {Word("local"), Word("latest"), Word("lts"), Word("stable")}
    \cup {Numeric(FALSE, b) : b \in {<<18>>, <<20>>, <<20, 1>>}}
    \cup {Numeric(TRUE, <<18, 1, 0>>), Numeric(FALSE, <<22, 0, 0>>)}

\* Lexicographic order of versions
VersionLess(a, b) ==
    \E k \in 1..3 : a[k] < b[k] /\ \A m \in 1..(k - 1) : a[m] = b[m]

\* The version index nodejs.org serves: entries ordered newest first
IndexEntries == [version : NodeVersions, lts : BOOLEAN]
Indexes ==
    UNION {{ix \in [1..n -> IndexEntries] :
               \A k \in 1..(n - 1) : VersionLess(ix[k + 1].version, ix[k].version)}
           : n \in 0..MaxIndexLen}

\* version.match(NODE_VERSION_REGEX)?.slice(1).filter(Boolean): the numeric
\* components of the alias, or no match
NoMatch == <<>>
versionBits(alias) == IF alias.name = "numeric" THEN alias.bits ELSE NoMatch

\* Line 287: the index is fetched unless the alias has all three components
needsIndex(alias) == versionBits(alias) = NoMatch \/ Len(versionBits(alias)) < 3

\* v.version.startsWith(`v${versionBits.join(".")}.`)
startsWithPrefix(version, bits) ==
    /\ Len(bits) < Len(version)
    /\ \A k \in 1..Len(bits) : version[k] = bits[k]

\* availableVersions.find(...)?.version.slice(1), hits being the positions
\* of the entries the predicate accepts: the first of them, or undefined
Undefined == <<>>
findLast(index, hits) ==
    IF hits = {} THEN Undefined
    ELSE index[CHOOSE k \in hits : \A m \in hits : k >= m].version
findFirst(index, hits) ==
    IF hits = {} THEN Undefined
    ELSE index[CHOOSE k \in hits : \A m \in hits : k <= m].version

Resolved(v) == [ok |-> TRUE, version |-> v, error |-> "none"]
Rejected(v, e) == [ok |-> FALSE, version |-> v, error |-> e]

\* Lines 315-323: versions below the first major with SEA support are refused
belowFloorOf18(version) == version[1] < 18
belowFloor(version) == version[1] < MIN_SEA_MAJOR
checkFloor(version) ==
    IF belowFloor(version) THEN Rejected(version, "no-sea")
    ELSE Resolved(version)

\* Lines 277-280: resolvedVersion before the index is looked at
initialVersion(alias) ==
    IF alias.name = "local" THEN processVersion
    ELSE IF alias.name = "numeric" THEN alias.bits
    ELSE Undefined

\* Lines 290-310 and 314-324: the rest of _resolveNodeVersion once the index
\* has been fetched.  A word that is neither local, latest nor lts keeps the
\* alias as resolvedVersion, and line 315 throws a TypeError on the failed match.
resolveWithIndex(alias, availableVersions) ==
    LET bits == versionBits(alias)
        ltsEntries == {k \in 1..Len(availableVersions) : availableVersions[k].lts}
        prefixEntries ==
            {k \in 1..Len(availableVersions) :
                 startsWithPrefix(availableVersions[k].version, bits)}
        resolvedVersion ==
            IF alias.name = "latest" THEN availableVersions[1].version
            ELSE IF alias.name = "lts" THEN findFirst(availableVersions, ltsEntries)
            ELSE IF bits # NoMatch THEN findFirst(availableVersions, prefixEntries)
            ELSE initialVersion(alias)
    IN  IF Len(availableVersions) = 0 THEN Rejected(Undefined, "no-versions")
        ELSE IF alias.name \notin {"local", "latest", "lts", "numeric"}
             THEN Rejected(Undefined, "type-error")
        ELSE IF resolvedVersion = Undefined THEN Rejected(Undefined, "no-match")
        ELSE checkFloor(resolvedVersion)

\* Lines 311-313: a full version resolves to itself without the "v"
resolveWithoutIndex(alias) == checkFloor(versionBits(alias))

\* _VERSION_CACHE.has(version)
cacheHasNever(alias) == FALSE
cacheHasUnlessRejected(alias) ==
    /\ VERSION_CACHE[alias] # 0
    /\ ~(promises[VERSION_CACHE[alias]].state = "settled"
           /\ ~promises[VERSION_CACHE[alias]].result.ok)
cacheHas(alias) == VERSION_CACHE[alias] # 0

Pending(alias) == [alias |-> alias, state |-> "pending", fetched |-> TRUE,
                   result |-> Rejected(Undefined, "none")]
Settled(alias, r) == [alias |-> alias, state |-> "settled", fetched |-> FALSE,
                      result |-> r]

\* _resolveNodeVersion(version) up to its first await: the promise it returns
startResolution(alias) ==
    IF needsIndex(alias) THEN Pending(alias)
    ELSE Settled(alias, resolveWithoutIndex(alias))

\* resolveNodeVersion(version), lines 327-332
resolveNodeVersion(alias) ==
    /\ Len(calls) < MaxCalls
    /\ IF cacheHas(alias)
       THEN /\ UNCHANGED <<VERSION_CACHE, promises>>
            /\ calls' = Append(calls, [alias |-> alias,
                                       promise |-> VERSION_CACHE[alias],
                                       found |-> promises[VERSION_CACHE[alias]].state,
                                       awaited |-> FALSE])
       ELSE /\ promises' = Append(promises, startResolution(alias))
            /\ VERSION_CACHE' = [VERSION_CACHE EXCEPT ![alias] = Len(promises) + 1]
            /\ calls' = Append(calls, [alias |-> alias,
                                       promise |-> Len(promises) + 1,
                                       found |-> "nothing",
                                       awaited |-> FALSE])
    /\ UNCHANGED <<resolveInput, buildVars, cacheVars, elsewhere>>

\* fetch(NODE_VERSIONS_INDEX_URL) and response.json() return, lines 289-290
fetchIndexReturn(k, availableVersions) ==
    /\ promises[k].state = "pending"
    /\ promises' = [promises EXCEPT ![k] =
           [@ EXCEPT !.state = "settled",
                     !.result = resolveWithIndex(promises[k].alias,
                                                availableVersions)]]
    /\ UNCHANGED <<resolveInput, VERSION_CACHE, calls, buildVars, cacheVars, elsewhere>>

\* fetch or response.json() throws: the index is unreachable or malformed
fetchIndexThrow(k) ==
    /\ promises[k].state = "pending"
    /\ promises' = [promises EXCEPT ![k] =
           [@ EXCEPT !.state = "settled",
                     !.result = Rejected(Undefined, "fetch-failed")]]
    /\ UNCHANGED <<resolveInput, VERSION_CACHE, calls, buildVars, cacheVars, elsewhere>>

\* A caller's await of the returned promise completes
awaitResolved(c) ==
    /\ ~calls[c].awaited
    /\ promises[calls[c].promise].state = "settled"
    /\ calls' = [calls EXCEPT ![c].awaited = TRUE]
    /\ UNCHANGED <<resolveInput, VERSION_CACHE, promises, buildVars, cacheVars, elsewhere>>

\* What call c got from its await
callResult(c) == promises[calls[c].promise].result

\* The fetches of the version index issued for an alias
indexFetches(alias) ==
    Cardinality({k \in DOMAIN promises :
                    promises[k].alias = alias /\ promises[k].fetched})

BuildIdle ==
    /\ platforms = <<>>
    /\ sign = FALSE
    /\ env = {}
    /\ concurrencyLimit = 0
    /\ resolves = FALSE
    /\ pc = <<>>
    /\ orch = "idle"
    /\ exited = FALSE
    /\ outFile = <<>>
    /\ zipFile = <<>>
    /\ interFiles = {}
    /\ toolCalls = {}
    /\ warnings = {}

InitResolve ==
    /\ processVersion \in {<<18, 1, 0>>, <<22, 0, 0>>}
    /\ nodeIndex = <<>>
    /\ VERSION_CACHE = [a \in Aliases |-> 0]
    /\ promises = <<>>
    /\ calls = <<>>
    /\ BuildIdle
    /\ CacheIdle
    /\ ElsewhereIdle

NextResolve ==
    \/ \E a \in Aliases : resolveNodeVersion(a)
    \/ \E k \in DOMAIN promises, ix \in Indexes : fetchIndexReturn(k, ix)
    \/ \E k \in DOMAIN promises : fetchIndexThrow(k)
    \/ \E c \in DOMAIN calls : awaitResolved(c)

SpecResolve == InitResolve /\ [][NextResolve]_vars

\* The resolutions of a process for which nodejs.org serves one index, up to
\* the settling of their promises
InitIndex ==
    /\ processVersion \in {<<18, 1, 0>>, <<22, 0, 0>>}
    /\ nodeIndex \in Indexes
    /\ VERSION_CACHE = [a \in Aliases |-> 0]
    /\ promises = <<>>
    /\ calls = <<>>
    /\ BuildIdle
    /\ CacheIdle
    /\ ElsewhereIdle

NextIndex ==
    \/ \E a \in Aliases : resolveNodeVersion(a)
    \/ \E k \in DOMAIN promises : fetchIndexReturn(k, nodeIndex)
    \/ \E k \in DOMAIN promises : fetchIndexThrow(k)

SpecIndex == InitIndex /\ [][NextIndex]_vars

(***************************************************************************)
(* Claims about the version resolver (specification SpecResolve).          *)
(***************************************************************************)
\* C5: all calls for one alias, also those made while its resolution is in
\* flight, get the same result, and the version index is fetched at most
\* once for the alias.
C5_SingleFlight ==
    /\ \A c, d \in DOMAIN calls :
           (calls[c].alias = calls[d].alias /\ calls[c].awaited /\ calls[d].awaited)
           => callResult(c) = callResult(d)
    /\ \A a \in Aliases : indexFetches(a) <= 1

C5_Witness ==
    \E c, d \in DOMAIN calls :
        /\ c # d /\ calls[c].alias = calls[d].alias
        /\ calls[c].awaited /\ calls[d].awaited
        /\ callResult(c).ok
        /\ indexFetches(calls[c].alias) = 1

\* C6: no resolution, whatever the alias form, yields a version below the
\* first version with single-executable support; a resolution whose version
\* is below it has failed.
SeaFloor == <<MIN_SEA_MAJOR, 0, 0>>
C6_FloorEnforced ==
    \A k \in DOMAIN promises :
        (promises[k].state = "settled" /\ promises[k].result.version # Undefined
             /\ VersionLess(promises[k].result.version, SeaFloor))
        => ~promises[k].result.ok

C6_Witness ==
    \E k, m \in DOMAIN promises :
        /\ promises[k].alias = Word("lts") /\ promises[m].alias.name = "numeric"
        /\ Len(promises[m].alias.bits) = 3
        /\ promises[k].state = "settled" /\ promises[m].state = "settled"
        /\ promises[k].result.error = "no-sea" /\ promises[m].result.error = "no-sea"
        /\ VersionLess(promises[k].result.version, SeaFloor)

\* C13: resolving "local" or a full major.minor.patch alias fetches the
\* version index never.
isFull(alias) == alias.name = "numeric" /\ Len(alias.bits) = 3
C13_NoFetchForLocalOrFull ==
    \A k \in DOMAIN promises :
        (promises[k].alias.name = "local" \/ isFull(promises[k].alias))
        => ~promises[k].fetched

\* C14: a resolution that returns, returns the alias itself for a full
\* version; the first entry of the index for "latest", the first entry
\* flagged LTS for "lts", the first entry that agrees with every component of
\* a partial numeric alias; it fails when no entry matches; and whatever is
\* returned has three components (specification SpecIndex).
matching(alias, ix) ==
    IF alias.name = "latest" THEN DOMAIN ix
    ELSE IF alias.name = "lts" THEN {k \in DOMAIN ix : ix[k].lts}
    ELSE {k \in DOMAIN ix :
              \A m \in DOMAIN alias.bits : ix[k].version[m] = alias.bits[m]}
C14_ResolutionRules ==
    \A k \in DOMAIN promises :
        LET alias == promises[k].alias
            r == promises[k].result
            hits == matching(alias, nodeIndex)
        IN  /\ (promises[k].state = "settled"
                    /\ (alias.name \in {"latest", "lts"}
                            \/ (alias.name = "numeric" /\ ~isFull(alias))))
               => /\ hits = {} => ~r.ok
                  /\ r.ok => /\ \E h \in hits :
                                    /\ \A g \in hits : h <= g
                                    /\ r.version = nodeIndex[h].version
                             /\ Len(r.version) = 3
            /\ (isFull(alias) /\ r.ok) => r.version = alias.bits

C14_Witness ==
    \E k, m \in DOMAIN promises :
        /\ Len(nodeIndex) = 2
        /\ promises[k].alias = Numeric(FALSE, <<20>>)
        /\ promises[k].result.ok /\ promises[k].result.version = <<20, 1, 0>>
        /\ promises[m].alias = Word("lts")
        /\ promises[m].result.ok /\ promises[m].result.version = <<20, 0, 0>>

(***************************************************************************)
(* The runtime binary cache: node-util.ts, lines 233-271 and 334-418.      *)
(*                                                                         *)
(* A directory holds at most one file per (resolved version, platform).    *)
(* What the cache directory and the temporary directory hold before the    *)
(* first call is arbitrary: a file is "unknown" until a call first looks   *)
(* at it, and the look fixes what was there.                               *)
(***************************************************************************)
MaxBinaryCalls == 2

CacheVersions == {<<22, 0, 0>>}
Dirs == {"cacheDir", "tmpdir"}
PriorFileStates == {"absent", "ok", "unreadable", "corrupt"}
FileStates == PriorFileStates \cup {"partial", "written"}

\* getNodeBinaryCacheName(version, platform): one name per key, ".exe" for win
getNodeBinaryCacheName(version, platform) ==
    [name |-> <<version, platform>>,
     ext |-> IF startsWithWin(platform) THEN ".exe" ELSE ""]

CacheKeys ==
    {getNodeBinaryCacheName(v, p).name : v \in CacheVersions, p \in PlatformIds}

\* What a look at the file of key k in directory d can find.  A file that
\* is being written holds a part of its bytes: a reader may get enough of
\* them for the unsign step to work on ("partial"), or not ("corrupt").
Observe(d, k) ==
    IF dirFile[d][k] = "unknown" THEN PriorFileStates
    ELSE IF dirFile[d][k] = "partial" THEN {"partial", "corrupt"}
    ELSE {dirFile[d][k]}

\* The file after the look: what was there before the first call is fixed
Observed(d, k, s) ==
    [dirFile EXCEPT ![d][k] = IF @ = "unknown" THEN s ELSE @]

\* Lines 255-266: the unsign step (unsign, signatureSet) runs on every read
\* that makes a working copy for darwin or win, once the file has been read
unsignRunsDarwinOnly(s, platform, target) ==
    IF target /\ startsWithDarwin(platform) /\ s \notin {"absent", "unreadable"}
    THEN 1 ELSE 0
unsignRuns(s, platform, target) ==
    IF target /\ (startsWithDarwin(platform) \/ startsWithWin(platform))
           /\ s \notin {"absent", "unreadable"}
    THEN 1 ELSE 0

\* getNodeBinaryFromCache, lines 242-271: the error the read of a file in
\* state s ends with, "none" when it returns.  A missing file is ENOENT, an
\* unreadable one EACCES; a file the unsign step cannot parse fails the two
\* platforms that unsign, when a working copy is asked for.  The directory of
\* the working copy exists (impl.ts makes outDir before the first call), so
\* the write of the copy itself does not fail.
getNodeBinaryFromCacheAlwaysMissing(s, platform, target) == "ENOENT"
getNodeBinaryFromCache(s, platform, target) ==
    IF s = "absent" THEN "ENOENT"
    ELSE IF s = "unreadable" THEN "EACCES"
    ELSE IF s = "corrupt" /\ target
              /\ (startsWithDarwin(platform) \/ startsWithWin(platform))
         THEN "unsign-failed"
    ELSE "none"

\* Lines 355-359: only ENOENT lets getNodeBinary go on to the download
isCacheMissAnyError(err) == err # "none"
isCacheMiss(err) == err = "ENOENT"

BinaryCall(platform, dir, target) ==
    [platform |-> platform, dir |-> dir, hasTarget |-> target,
     pc |-> "resolve", version |-> Undefined, seen |-> "none",
     readError |-> "none", downloaded |-> FALSE, failedAt |-> "none",
     result |-> "none", served |-> "none", unsigns |-> 0, rmFailed |-> FALSE]

keyOf(c) == getNodeBinaryCacheName(gb[c].version, gb[c].platform).name

\* getNodeBinary(version, platform, cacheDir, targetPath), lines 334-346:
\* without a cache directory tmpdir() takes its place
getNodeBinary(platform) ==
    /\ Len(gb) < MaxBinaryCalls
    /\ gb' = Append(gb, BinaryCall(platform,
                                   IF cacheDir = "null" THEN "tmpdir" ELSE "cacheDir",
                                   hasTarget))
    /\ UNCHANGED <<dirFile, staging, cacheDir, hasTarget, buildVars, resolveVars, elsewhere>>

\* await resolveNodeVersion(version) returns; the cache is read
resolveReturn(c, version) ==
    /\ gb[c].pc = "resolve"
    /\ gb' = [gb EXCEPT ![c].version = version, ![c].pc = "cacheRead"]
    /\ UNCHANGED <<dirFile, staging, cacheDir, hasTarget, buildVars, resolveVars, elsewhere>>

resolveThrow(c) ==
    /\ gb[c].pc = "resolve"
    /\ gb' = [gb EXCEPT ![c].pc = "failed", ![c].failedAt = "resolve"]
    /\ UNCHANGED <<dirFile, staging, cacheDir, hasTarget, buildVars, resolveVars, elsewhere>>

\* Lines 368-369: fs.mkdir(cacheDir) and fs.mkdtemp are reached only past the
\* catch of the cache read, by a call whose read was a miss
stagingMadeBeforeRead(c, err) == staging \cup {c}
stagingAfterRead(c, err) == IF isCacheMiss(err) THEN staging \cup {c} ELSE staging

\* Lines 348-371: the first getNodeBinaryFromCache ends.  It returns the
\* file; or it threw ENOENT, and the staging directory is made and the
\* archive is fetched; or it threw something else, which is rethrown.
cacheRead(c, s) ==
    LET err == getNodeBinaryFromCache(s, gb[c].platform, gb[c].hasTarget)
        runs == unsignRuns(s, gb[c].platform, gb[c].hasTarget)
    IN  /\ gb[c].pc = "cacheRead"
        /\ s \in Observe(gb[c].dir, keyOf(c))
        /\ dirFile' = Observed(gb[c].dir, keyOf(c), s)
        /\ staging' = stagingAfterRead(c, err)
        /\ IF err = "none"
           THEN gb' = [gb EXCEPT ![c].seen = s, ![c].pc = "returned",
                                 ![c].result = "hit", ![c].served = s,
                                 ![c].unsigns = @ + runs]
           ELSE IF isCacheMiss(err)
           THEN gb' = [gb EXCEPT ![c].seen = s, ![c].readError = err,
                                 ![c].downloaded = TRUE, ![c].pc = "fetch"]
           ELSE gb' = [gb EXCEPT ![c].seen = s, ![c].readError = err,
                                 ![c].pc = "failed",
                                 ![c].failedAt = "cacheRead",
                                 ![c].unsigns = @ + runs]
        /\ UNCHANGED <<cacheDir, hasTarget, buildVars, resolveVars, elsewhere>>

\* Lines 371-404: the response is ok and has a body; the entry is extracted
fetchReturn(c) ==
    /\ gb[c].pc = "fetch"
    /\ gb' = [gb EXCEPT ![c].pc = "extract"]
    /\ UNCHANGED <<dirFile, staging, cacheDir, hasTarget, buildVars, resolveVars, elsewhere>>

\* Lines 372-379: the response is not ok or has no body
fetchNotOkAfterWrite(c) ==
    /\ gb[c].pc = "fetch"
    /\ dirFile' = [dirFile EXCEPT ![gb[c].dir][keyOf(c)] = "corrupt"]
    /\ gb' = [gb EXCEPT ![c].pc = "failed", ![c].failedAt = "fetch"]
    /\ UNCHANGED <<staging, cacheDir, hasTarget, buildVars, resolveVars, elsewhere>>
fetchNotOk(c) ==
    /\ gb[c].pc = "fetch"
    /\ gb' = [gb EXCEPT ![c].pc = "failed", ![c].failedAt = "fetch"]
    /\ UNCHANGED <<dirFile, staging, cacheDir, hasTarget, buildVars, resolveVars, elsewhere>>

\* unzip or untar returns the entry; fs.writeFile(cacheTargetFile) is called:
\* it opens the file, truncating it, and writes the bytes in chunks
extractReturn(c) ==
    /\ gb[c].pc = "extract"
    /\ dirFile' = [dirFile EXCEPT ![gb[c].dir][keyOf(c)] = "partial"]
    /\ gb' = [gb EXCEPT ![c].pc = "write"]
    /\ UNCHANGED <<staging, cacheDir, hasTarget, buildVars, resolveVars, elsewhere>>

extractThrow(c) ==
    /\ gb[c].pc = "extract"
    /\ gb' = [gb EXCEPT ![c].pc = "failed", ![c].failedAt = "extract"]
    /\ UNCHANGED <<dirFile, staging, cacheDir, hasTarget, buildVars, resolveVars, elsewhere>>

\* Another call that is writing the same file
otherWriter(c) ==
    \E d \in DOMAIN gb \ {c} :
        gb[d].pc = "write" /\ gb[d].dir = gb[c].dir /\ keyOf(d) = keyOf(c)

\* fs.writeFile returns: the file is complete unless another call truncated
\* it and is still writing; fs.chmod(cacheTargetFile, 0o755) is awaited
writeReturn(c) ==
    /\ gb[c].pc = "write"
    /\ dirFile' = [dirFile EXCEPT ![gb[c].dir][keyOf(c)] =
                       IF otherWriter(c) THEN "partial" ELSE "written"]
    /\ gb' = [gb EXCEPT ![c].pc = "chmod"]
    /\ UNCHANGED <<staging, cacheDir, hasTarget, buildVars, resolveVars, elsewhere>>

\* The cache file is executable; fs.rm(nodeDir) is awaited, lines 405-411
chmodReturnModeKept(c) ==
    /\ gb[c].pc = "chmod"
    /\ gb' = [gb EXCEPT ![c].pc = "rmStaging"]
    /\ UNCHANGED <<dirFile, staging, cacheDir, hasTarget, buildVars, resolveVars, elsewhere>>
chmodReturn(c) ==
    /\ gb[c].pc = "chmod"
    /\ dirFile' = [dirFile EXCEPT ![gb[c].dir][keyOf(c)] =
                       IF @ = "written" THEN "ok" ELSE @]
    /\ gb' = [gb EXCEPT ![c].pc = "rmStaging"]
    /\ UNCHANGED <<staging, cacheDir, hasTarget, buildVars, resolveVars, elsewhere>>

\* The staging directory is removed; the cache is read again, lines 412-417
rmStagingReturn(c) ==
    /\ gb[c].pc = "rmStaging"
    /\ staging' = staging \ {c}
    /\ gb' = [gb EXCEPT ![c].pc = "reread"]
    /\ UNCHANGED <<dirFile, cacheDir, hasTarget, buildVars, resolveVars, elsewhere>>

\* The removal fails: the failure is logged, lines 409-411
rmStagingThrow(c) ==
    /\ gb[c].pc = "rmStaging"
    /\ gb' = [gb EXCEPT ![c].pc = "reread", ![c].rmFailed = TRUE]
    /\ UNCHANGED <<dirFile, staging, cacheDir, hasTarget, buildVars, resolveVars, elsewhere>>

\* The second getNodeBinaryFromCache ends; whatever it throws is thrown
reread(c, s) ==
    LET err == getNodeBinaryFromCache(s, gb[c].platform, gb[c].hasTarget)
        runs == unsignRuns(s, gb[c].platform, gb[c].hasTarget)
    IN  /\ gb[c].pc = "reread"
        /\ s \in Observe(gb[c].dir, keyOf(c))
        /\ IF err = "none"
           THEN gb' = [gb EXCEPT ![c].pc = "returned", ![c].result = "populated",
                                 ![c].served = s, ![c].unsigns = @ + runs]
           ELSE gb' = [gb EXCEPT ![c].pc = "failed", ![c].failedAt = "reread",
                                 ![c].unsigns = @ + runs]
        /\ UNCHANGED <<dirFile, staging, cacheDir, hasTarget, buildVars, resolveVars, elsewhere>>

InitCache ==
    /\ dirFile = [d \in Dirs |-> [k \in CacheKeys |-> "unknown"]]
    /\ staging = {}
    /\ cacheDir \in {"null", ".node-cache"}
    /\ hasTarget \in BOOLEAN
    /\ gb = <<>>
    /\ BuildIdle
    /\ ResolveIdle
    /\ ElsewhereIdle

NextCache ==
    \/ \E p \in PlatformIds : getNodeBinary(p)
    \/ \E c \in DOMAIN gb, v \in CacheVersions : resolveReturn(c, v)
    \/ \E c \in DOMAIN gb : resolveThrow(c)
    \/ \E c \in DOMAIN gb, s \in FileStates : cacheRead(c, s)
    \/ \E c \in DOMAIN gb : fetchReturn(c)
    \/ \E c \in DOMAIN gb : fetchNotOk(c)
    \/ \E c \in DOMAIN gb : extractReturn(c)
    \/ \E c \in DOMAIN gb : extractThrow(c)
    \/ \E c \in DOMAIN gb : writeReturn(c)
    \/ \E c \in DOMAIN gb : chmodReturn(c)
    \/ \E c \in DOMAIN gb : rmStagingReturn(c)
    \/ \E c \in DOMAIN gb : rmStagingThrow(c)
    \/ \E c \in DOMAIN gb, s \in FileStates : reread(c, s)

SpecCache == InitCache /\ [][NextCache]_vars

(***************************************************************************)
(* Claims about the runtime binary cache (specification SpecCache).        *)
(***************************************************************************)
PresentFileStates == {"ok", "written", "partial", "unreadable", "corrupt"}

\* C7: a call that finds the file of its (resolved version, platform) in
\* the cache directory downloads nothing, and when the file is intact the
\* call is served from it.
C7_NoDownloadOnHit ==
    \A c \in DOMAIN gb :
        /\ gb[c].seen \in PresentFileStates => ~gb[c].downloaded
        /\ gb[c].seen \in {"ok", "written"} =>
               (gb[c].pc = "returned" /\ gb[c].result = "hit")

C7_Witness ==
    \E c, d \in DOMAIN gb :
        /\ c # d /\ keyOf(c) = keyOf(d) /\ gb[c].dir = "cacheDir"
        /\ gb[c].seen = "ok" /\ gb[d].seen = "ok"
        /\ gb[c].result = "hit" /\ gb[d].result = "hit"
        /\ ~gb[c].downloaded /\ ~gb[d].downloaded

\* C8 as stated: no failure of the cache read makes getNodeBinary fail; the
\* call goes on to the download.
C8_AnyReadFailureIsMiss ==
    \A c \in DOMAIN gb :
        gb[c].readError # "none" =>
            (gb[c].failedAt # "cacheRead" /\ gb[c].downloaded)

\* C8 as amended: a missing file (ENOENT) is a cache miss, after which the
\* call downloads; any other failure of the cache read makes the call fail
\* without a download.
C8_OnlyMissingIsMiss ==
    \A c \in DOMAIN gb :
        /\ gb[c].readError = "ENOENT" =>
               (gb[c].downloaded /\ gb[c].failedAt # "cacheRead")
        /\ gb[c].readError \in {"EACCES", "unsign-failed"} =>
               (gb[c].pc = "failed" /\ gb[c].failedAt = "cacheRead"
                    /\ ~gb[c].downloaded)

C8_Witness ==
    \E c, d \in DOMAIN gb :
        /\ gb[c].readError = "ENOENT" /\ gb[c].downloaded
        /\ gb[c].pc = "returned" /\ gb[c].result = "populated"
        /\ dirFile[gb[c].dir][keyOf(c)] = "ok"
        /\ gb[d].readError = "EACCES" /\ gb[d].pc = "failed"

\* C17: a call without a cache directory is never served from a file found
\* in the temporary directory, and once it has returned the temporary
\* directory holds no runtime binary of its key.
C17_TmpdirOnlyStages ==
    \A c \in DOMAIN gb :
        gb[c].dir = "tmpdir"
        => /\ gb[c].result # "hit"
           /\ gb[c].pc = "returned"
              => /\ gb[c].downloaded
                 /\ dirFile["tmpdir"][keyOf(c)] \notin PresentFileStates

\* C18 as stated: the unsign step runs when the entry is populated only; a
\* cache hit copies the file without running it.
C18_UnsignOnlyAtPopulation ==
    \A c \in DOMAIN gb : gb[c].result = "hit" => gb[c].unsigns = 0

\* C18 as amended: the unsign step runs once in every call that returns a
\* working copy for a macOS or Windows platform, on a cache hit as after a
\* download, and never in a call for another platform or without a target
\* path.
unsignPlatform(p) == startsWithDarwin(p) \/ startsWithWin(p)
C18_UnsignOnEveryCopy ==
    \A c \in DOMAIN gb :
        /\ (gb[c].pc = "returned" /\ gb[c].hasTarget /\ unsignPlatform(gb[c].platform))
           => gb[c].unsigns = 1
        /\ (~gb[c].hasTarget \/ ~unsignPlatform(gb[c].platform))
           => gb[c].unsigns = 0

C18_Witness ==
    \E c, d \in DOMAIN gb :
        /\ c # d /\ keyOf(c) = keyOf(d) /\ gb[c].dir = gb[d].dir
        /\ gb[c].platform = DarwinArm64 /\ gb[c].hasTarget
        /\ gb[c].result = "populated" /\ gb[c].unsigns = 1
        /\ gb[d].result = "hit" /\ gb[d].seen = "ok" /\ gb[d].unsigns = 1

\* C19: no call is served a cache file that another call is still writing.
C19_NoPartialCopy ==
    \A c \in DOMAIN gb : gb[c].served # "partial"

(***************************************************************************)
(* The archive extraction: archive-util.ts, lines 80-157.                  *)
(*                                                                         *)
(* One archive, a sequence of (name, content) entries, is read as a ZIP by *)
(* unzip and as a TAR+XZ by untar.  A read stream delivers the content of  *)
(* an entry in chunks, cut where the stream pleases.                       *)
(***************************************************************************)
MaxEntries == 2

EntryNames == {"bin/node", "LICENSE"}
TargetNames == {"bin/node", "node.exe"}
Contents == {<<>>, <<1, 2>>}
Entries == [name : EntryNames, content : Contents]
Archives == UNION {[1..n -> Entries] : n \in 0..MaxEntries}

\* The chunks a read stream can deliver for a content
Chunkings(b) ==
    IF b = <<>> THEN {<<>>}
    ELSE {<<b>>} \cup {<<SubSeq(b, 1, k), SubSeq(b, k + 1, Len(b))>> :
                          k \in 1..(Len(b) - 1)}

\* bufferFromAsync, lines 80-88: Buffer.concat of the chunks, in order
bufferFromAsyncLastChunk(chunks) ==
    IF chunks = <<>> THEN <<>> ELSE chunks[Len(chunks)]
RECURSIVE bufferFromAsync(_)
bufferFromAsync(chunks) ==
    IF chunks = <<>> THEN <<>>
    ELSE chunks[1] \o bufferFromAsync(Tail(chunks))

Buffer(b) == [defined |-> TRUE, bytes |-> b]
NoBuffer == [defined |-> FALSE, bytes |-> <<>>]

\* No entry is left: yauzl emits "end", the tar iterator is done
exhaustedAfterFirst(read) == read >= 1 \/ Len(archive) = 0
exhausted(read) == read = Len(archive)

\* ---- unzip, lines 91-130
\* yauzlOpen returns the zipfile; the handlers are set and readEntry() is called
yauzlOpenReturn ==
    /\ unzipCall.pc = "open"
    /\ unzipCall' = [unzipCall EXCEPT !.pc = "reading"]
    /\ UNCHANGED <<archive, targetFile, untarCall, prepVars, buildVars,
                   resolveVars, cacheVars>>

\* yauzlOpen throws: the file is missing or is no ZIP archive
yauzlOpenThrow ==
    /\ unzipCall.pc = "open"
    /\ unzipCall' = [unzipCall EXCEPT !.pc = "settled", !.outcome = "rejected",
                                      !.error = "open-failed"]
    /\ UNCHANGED <<archive, targetFile, untarCall, prepVars, buildVars,
                   resolveVars, cacheVars>>

\* entry.fileName !== targetFile, line 104, negated
fileNameMatchesAny(fileName) == TRUE
fileNameMatches(fileName) == fileName = targetFile

\* The "entry" handler, lines 103-115: another name reads on; the target
\* name opens the read stream of the entry
onEntry ==
    /\ unzipCall.pc = "reading"
    /\ ~exhausted(unzipCall.read)
    /\ unzipCall' =
           IF ~fileNameMatches(archive[unzipCall.read + 1].name)
           THEN [unzipCall EXCEPT !.read = @ + 1]
           ELSE [unzipCall EXCEPT !.read = @ + 1, !.pc = "openReadStream",
                                  !.opened = @ \cup {unzipCall.read + 1}]
    /\ UNCHANGED <<archive, targetFile, untarCall, prepVars, buildVars,
                   resolveVars, cacheVars>>

\* The "end" handler, lines 116-123
onEnd ==
    /\ unzipCall.pc = "reading"
    /\ exhausted(unzipCall.read)
    /\ unzipCall' = IF ~unzipCall.found
                    THEN [unzipCall EXCEPT !.pc = "settled",
                                           !.outcome = "rejected",
                                           !.error = "not-found"]
                    ELSE [unzipCall EXCEPT !.pc = "settled"]
    /\ UNCHANGED <<archive, targetFile, untarCall, prepVars, buildVars,
                   resolveVars, cacheVars>>

\* The openReadStream callback without error, lines 113-114: the promise
\* resolves with the bytes the stream delivers
openReadStreamReturn(chunks) ==
    /\ unzipCall.pc = "openReadStream"
    /\ chunks \in Chunkings(archive[unzipCall.read].content)
    /\ unzipCall' = [unzipCall EXCEPT !.pc = "settled", !.found = TRUE,
                                      !.outcome = "resolved",
                                      !.buffer = Buffer(bufferFromAsync(chunks))]
    /\ UNCHANGED <<archive, targetFile, untarCall, prepVars, buildVars,
                   resolveVars, cacheVars>>

\* The openReadStream callback with an error, lines 109-112
openReadStreamError ==
    /\ unzipCall.pc = "openReadStream"
    /\ unzipCall' = [unzipCall EXCEPT !.pc = "settled", !.outcome = "rejected",
                                      !.error = "stream-error"]
    /\ UNCHANGED <<archive, targetFile, untarCall, prepVars, buildVars,
                   resolveVars, cacheVars>>

\* ---- untar, lines 131-157
\* What the loop does once a matching entry is read, lines 147-151: it goes
\* on to the next entry ("We cannot return here ...")
loopAfterMatchReturns == "return"
loopAfterMatch == "continue"

\* One turn of the for-await loop, lines 142-152: another name is skipped by
\* entry.resume(), which discards its body; the target name is read into
\* result, and the loop goes on
untarEntry(chunks) ==
    LET k == untarCall.read + 1
        read == Buffer(bufferFromAsync(chunks))
    IN  /\ untarCall.pc = "iterating"
        /\ ~exhausted(untarCall.read)
        /\ chunks \in Chunkings(archive[k].content)
        /\ untarCall' =
               IF archive[k].name # targetFile
               THEN [untarCall EXCEPT !.read = k, !.resumed = @ \cup {k}]
               ELSE IF loopAfterMatch = "continue"
               THEN [untarCall EXCEPT !.read = k, !.result = read]
               ELSE [untarCall EXCEPT !.read = k, !.result = read,
                                      !.pc = "settled", !.outcome = "resolved",
                                      !.buffer = read]
    /\ UNCHANGED <<archive, targetFile, unzipCall, prepVars, buildVars,
                   resolveVars, cacheVars>>

\* The loop ends, lines 154-157
untarEnd ==
    /\ untarCall.pc = "iterating"
    /\ exhausted(untarCall.read)
    /\ untarCall' = IF ~untarCall.result.defined
                    THEN [untarCall EXCEPT !.pc = "settled",
                                           !.outcome = "rejected",
                                           !.error = "not-found"]
                    ELSE [untarCall EXCEPT !.pc = "settled",
                                           !.outcome = "resolved",
                                           !.buffer = untarCall.result]
    /\ UNCHANGED <<archive, targetFile, unzipCall, prepVars, buildVars,
                   resolveVars, cacheVars>>

\* The iterator throws: the stream is no XZ stream or no TAR archive
untarThrow ==
    /\ untarCall.pc = "iterating"
    /\ untarCall' = [untarCall EXCEPT !.pc = "settled", !.outcome = "rejected",
                                      !.error = "stream-error"]
    /\ UNCHANGED <<archive, targetFile, unzipCall, prepVars, buildVars,
                   resolveVars, cacheVars>>

InitArchive ==
    /\ archive \in Archives
    /\ targetFile \in TargetNames
    /\ unzipCall = [pc |-> "open", read |-> 0, found |-> FALSE, opened |-> {},
                    outcome |-> "pending", error |-> "none", buffer |-> NoBuffer]
    /\ untarCall = [pc |-> "iterating", read |-> 0, result |-> NoBuffer,
                    resumed |-> {},
                    outcome |-> "pending", error |-> "none", buffer |-> NoBuffer]
    /\ PrepareIdle
    /\ BuildIdle
    /\ ResolveIdle
    /\ CacheIdle

NextArchive ==
    \/ yauzlOpenReturn
    \/ yauzlOpenThrow
    \/ onEntry
    \/ onEnd
    \/ \E chunks \in Chunkings(<<1, 2>>) \cup Chunkings(<<>>) :
           openReadStreamReturn(chunks)
    \/ openReadStreamError
    \/ \E chunks \in Chunkings(<<1, 2>>) \cup Chunkings(<<>>) : untarEntry(chunks)
    \/ untarEnd
    \/ untarThrow

SpecArchive == InitArchive /\ [][NextArchive]_vars

(***************************************************************************)
(* Claims about the archive extraction (specification SpecArchive).        *)
(***************************************************************************)
\* C15: unzip and untar fail with not-found only when every entry of the
\* archive has been read.
C15_NotFoundAfterFullRead ==
    /\ unzipCall.error = "not-found" => unzipCall.read = Len(archive)
    /\ untarCall.error = "not-found" => untarCall.read = Len(archive)

C15_Witness ==
    /\ Len(archive) = MaxEntries
    /\ \A k \in DOMAIN archive : archive[k].name # targetFile
    /\ unzipCall.error = "not-found" /\ unzipCall.read = Len(archive)
    /\ untarCall.error = "not-found" /\ untarCall.read = Len(archive)

\* C16 as stated: when unzip and untar both return, they return the same
\* bytes.
C16_SameBytes ==
    (unzipCall.outcome = "resolved" /\ untarCall.outcome = "resolved")
    => unzipCall.buffer = untarCall.buffer

\* C16 as amended: when the entry name occurs once in the archive, unzip
\* and untar, when they return, both return the stored content of that entry.
occurrences(name) == {k \in DOMAIN archive : archive[k].name = name}
C16_SameBytesUniqueName ==
    \A k \in DOMAIN archive :
        occurrences(targetFile) = {k}
        => /\ unzipCall.outcome = "resolved"
              => unzipCall.buffer = Buffer(archive[k].content)
           /\ untarCall.outcome = "resolved"
              => untarCall.buffer = Buffer(archive[k].content)

C16_Witness ==
    /\ Len(archive) = MaxEntries
    /\ occurrences(targetFile) = {1}
    /\ archive[1].content = <<1, 2>>
    /\ unzipCall.outcome = "resolved" /\ untarCall.outcome = "resolved"
    /\ unzipCall.buffer = untarCall.buffer
    /\ unzipCall.buffer = Buffer(<<1, 2>>)

(***************************************************************************)
(* The build run before its pipelines: impl.ts, lines 58-160.              *)
(***************************************************************************)
AssetFiles == {"asset.txt", "logo.png"}

\* The entries of a Vite manifest.json: key -> {file, isEntry}
ManifestEntries ==
    {[key |-> "src/main.ts", file |-> "assets/main.js", isEntry |-> TRUE],
     [key |-> "style.css", file |-> "assets/style.css", isEntry |-> FALSE]}
NoManifest == [given |-> FALSE, entries |-> {}]
Manifests == {NoManifest} \cup [given : {TRUE}, entries : SUBSET ManifestEntries]
MANIFEST_JSON == "manifest.json"

\* `${process.platform}-${process.arch}`: process.platform is "win32" on Windows
Win32X64 == Platform("win32", "x64")
HostPlatforms == {LinuxX64, DarwinArm64, Win32X64}
FlagPlatforms == {<<>>} \cup PlatformLists

\* Lines 80-83: without platforms the run builds for the host
platformsOf(f) == IF Len(f.platforms) = 0 THEN <<f.host>> ELSE f.platforms

\* Lines 127-157: the assets of the SEA configuration, by their keys.  They
\* come from the asset manifest alone: its own file, the file of each entry
\* and the key of the entry flagged isEntry.
seaConfigAssets(f) ==
    IF f.assetManifest.given
    THEN {MANIFEST_JSON} \cup {e.file : e \in f.assetManifest.entries}
             \cup {e.key : e \in {x \in f.assetManifest.entries : x.isEntry}}
    ELSE {}

NoConfig == [written |-> FALSE, main |-> "none", assets |-> {}]

\* The command function is left at the step it is in: by a throw, or by
\* process.exit in run
prepStep(to) == [prep EXCEPT !.pc = to, !.leftAt = prep.pc]

\* fs.stat(entrypoint) returns, lines 63-84; the output directory is cleaned
statReturn ==
    /\ prep.pc = "stat"
    /\ flags.entry # "missing"
    /\ prep' = [prep EXCEPT !.pc = "clean", !.platforms = platformsOf(flags)]
    /\ UNCHANGED <<flags, archiveVars, buildVars, resolveVars, cacheVars>>

statThrow ==
    /\ prep.pc = "stat"
    /\ flags.entry = "missing"
    /\ prep' = prepStep("threw")
    /\ UNCHANGED <<flags, archiveVars, buildVars, resolveVars, cacheVars>>

\* Lines 90-93, fs.rm(outDir).catch(() => {}).finally(() => fs.mkdir(outDir)):
\* how the awaited chain settles for the outcomes of the two calls.  The
\* rejection of rm is caught; the one of mkdir is the chain's.
RmOutcomes == {"removed", "failed"}
MkdirOutcomes == {"made", "failed"}
cleanSettlesWithoutCatch(rm, mkdir) ==
    IF rm = "removed" /\ mkdir = "made" THEN "resolved" ELSE "rejected"
cleanSettles(rm, mkdir) == IF mkdir = "made" THEN "resolved" ELSE "rejected"

\* The output directory after the two calls: a removal that fails leaves
\* what was there (fs.rm of a directory that does not exist fails too)
cleaned(rm, mkdir) ==
    [prep EXCEPT !.rm = rm, !.mkdir = mkdir,
                 !.outDir = IF rm = "removed" THEN {} ELSE @,
                 !.outDirExists = IF mkdir = "made" THEN TRUE
                                  ELSE IF rm = "removed" THEN FALSE ELSE @]

\* Lines 89-93: outDir is removed (a failure is ignored) and made again
cleanReturn(rm, mkdir) ==
    /\ prep.pc = "clean"
    /\ rm = "removed" => prep.outDirExists
    /\ cleanSettles(rm, mkdir) = "resolved"
    /\ prep' = [cleaned(rm, mkdir) EXCEPT
                    !.pc = IF flags.noBundle THEN "config" ELSE "bundle",
                    !.main = IF flags.noBundle THEN "entrypoint" ELSE @]
    /\ UNCHANGED <<flags, archiveVars, buildVars, resolveVars, cacheVars>>

\* The chain rejects: fs.mkdir(outDir) has rejected
cleanThrow(rm, mkdir) ==
    /\ prep.pc = "clean"
    /\ rm = "removed" => prep.outDirExists
    /\ cleanSettles(rm, mkdir) = "rejected"
    /\ prep' = [cleaned(rm, mkdir) EXCEPT !.pc = "threw", !.leftAt = prep.pc]
    /\ UNCHANGED <<flags, archiveVars, buildVars, resolveVars, cacheVars>>

\* esbuild.build returns without errors, lines 98-125
bundleReturn ==
    /\ prep.pc = "bundle"
    /\ prep' = [prep EXCEPT !.outDir = @ \cup {"bundle.cjs"}, !.main = "bundle.cjs",
                            !.bundle = "ok", !.pc = "config"]
    /\ UNCHANGED <<flags, archiveVars, buildVars, resolveVars, cacheVars>>

\* esbuild.build rejects or reports errors, lines 122-124
bundleErrorsIgnored ==
    /\ prep.pc = "bundle"
    /\ prep' = [prep EXCEPT !.bundle = "errors", !.pc = "config"]
    /\ UNCHANGED <<flags, archiveVars, buildVars, resolveVars, cacheVars>>
bundleThrow ==
    /\ prep.pc = "bundle"
    /\ prep' = [prepStep("threw") EXCEPT !.bundle = "errors"]
    /\ UNCHANGED <<flags, archiveVars, buildVars, resolveVars, cacheVars>>

\* Lines 127-160: the SEA configuration is built and written, and node is
\* run with --experimental-sea-config
configReturn ==
    /\ prep.pc = "config"
    /\ prep' = [prep EXCEPT
           !.seaConfig = [written |-> TRUE, main |-> prep.main,
                          assets |-> seaConfigAssets(flags)],
           !.outDir = @ \cup {SEA_CONFIG_JSON},
           !.pc = "blob"]
    /\ UNCHANGED <<flags, archiveVars, buildVars, resolveVars, cacheVars>>

\* The manifest cannot be read or parsed, or the configuration not written
configThrow ==
    /\ prep.pc = "config"
    /\ prep' = prepStep("threw")
    /\ UNCHANGED <<flags, archiveVars, buildVars, resolveVars, cacheVars>>

\* node --experimental-sea-config exited 0: the blob is there and the
\* pipelines start, line 161
blobExit0 ==
    /\ prep.pc = "blob"
    /\ prep' = [prep EXCEPT !.outDir = @ \cup {SEA_BLOB}, !.pc = "pipelines"]
    /\ UNCHANGED <<flags, archiveVars, buildVars, resolveVars, cacheVars>>

\* node --experimental-sea-config exited nonzero: run ends the process
blobExitNonzero ==
    /\ prep.pc = "blob"
    /\ prep' = prepStep("exited")
    /\ UNCHANGED <<flags, archiveVars, buildVars, resolveVars, cacheVars>>

InitPrepare ==
    /\ flags \in [entry : {"file", "directory", "missing"},
                  noBundle : BOOLEAN,
                  assets : SUBSET AssetFiles,
                  assetManifest : Manifests,
                  platforms : FlagPlatforms,
                  host : HostPlatforms]
    /\ prep \in {p \in [pc : {"stat"}, platforms : {<<>>}, main : {"none"},
                          outDir : SUBSET {"stale"}, outDirExists : BOOLEAN,
                          rm : {"none"}, mkdir : {"none"},
                          seaConfig : {NoConfig},
                          leftAt : {"none"}, bundle : {"none"}] :
                     p.outDirExists \/ p.outDir = {}}
    /\ ArchiveIdle
    /\ BuildIdle
    /\ ResolveIdle
    /\ CacheIdle

NextPrepare ==
    \/ statReturn
    \/ statThrow
    \/ \E rm \in RmOutcomes, mkdir \in MkdirOutcomes : cleanReturn(rm, mkdir)
    \/ \E rm \in RmOutcomes, mkdir \in MkdirOutcomes : cleanThrow(rm, mkdir)
    \/ bundleReturn
    \/ bundleThrow
    \/ configReturn
    \/ configThrow
    \/ blobExit0
    \/ blobExitNonzero

SpecPrepare == InitPrepare /\ [][NextPrepare]_vars

(***************************************************************************)
(* Claims about the preparation (specification SpecPrepare).               *)
(***************************************************************************)
\* C12: in a run with --no-bundle, every asset file passed through the
\* assets flag is listed in the assets of the SEA configuration written.
C12_AssetsEmbedded ==
    (flags.noBundle /\ prep.seaConfig.written)
    => flags.assets \subseteq prep.seaConfig.assets

\* C21: when the bundler has reported errors the command function has
\* thrown at the bundling step: the SEA configuration is not written, the
\* blob is not made and the pipelines are not reached.
C21_BundlerErrorsAbortRun ==
    prep.bundle = "errors"
    => /\ prep.pc = "threw" /\ prep.leftAt = "bundle"
       /\ ~prep.seaConfig.written
       /\ prep.outDir \cap {SEA_CONFIG_JSON, SEA_BLOB} = {}

C21_Witness ==
    /\ ~flags.noBundle /\ flags.entry = "file"
    /\ prep.bundle = "errors" /\ prep.pc = "threw"
    /\ prep.platforms = <<LinuxX64, DarwinArm64>>

\* C23: without requested platforms, the platform built for on a Windows
\* host has the os part "win".
C23_WindowsHostMappedToWin ==
    (Len(flags.platforms) = 0 /\ prep.pc # "stat" /\ startsWithWin(flags.host))
    => \A k \in DOMAIN prep.platforms : prep.platforms[k].os = "win"

\* C22 (as claimed): when version resolution fails, the run fails while no
\* platform pipeline has started a step and no output binary is written.
C22_NoPipelineStarted ==
    (~resolves /\ runStatus = "failure")
    => /\ \A i \in Pipelines : pc[i] = "queued"
       /\ \A p \in PlatformIds : outFile[p] = "none"

\* C22 (amended): when version resolution fails, every pipeline that starts
\* fails in getNodeBinary, its first step: none gets further, no output
\* binary is written, no tool is run, and the run fails.
C22_ResolutionFailureFailsRun ==
    ~resolves
    => /\ \A i \in Pipelines : pc[i] \in {"queued", "getNodeBinary", "failed"}
       /\ \A p \in PlatformIds : outFile[p] = "none"
       /\ toolCalls = {}
       /\ runStatus # "success"
       /\ (\E i \in Pipelines : pc[i] = "failed") => runStatus = "failure"

C22_Witness ==
    /\ ~resolves /\ Len(platforms) = 2 /\ concurrencyLimit = 1
    /\ \A i \in Pipelines : pc[i] = "failed"
    /\ runStatus = "failure"

C25_StepOrder ==
    [][\A i \in Pipelines :
          pc'[i] # pc[i]
          => /\ pc'[i] = "getNodeBinary" => pc[i] = "queued"
             /\ pc'[i] = "readBlob" => pc[i] = "getNodeBinary"
             /\ pc'[i] = "inject" => pc[i] = "readBlob"
             /\ pc'[i] = "chmod" => pc[i] = "inject"
             /\ pc'[i] = "sign" => pc[i] = "chmod"
             /\ pc'[i] = "zip" => pc[i] = "sign"
             /\ pc'[i] = "notarize" => pc[i] = "zip"
             /\ pc'[i] = "rmZip" => pc[i] = "notarize"]_vars

C25_Witness ==
    \E i \in Pipelines :
        /\ pc[i] = "done" /\ outFile[platforms[i]] = "signed"
        /\ {<<i, "chmod">>} \cup {<<i, t>> : t \in SigningTools} \subseteq toolCalls

\* C26: rcodesign sign is run for a pipeline only when --sign was given, the
\* platform is darwin-* and the three signing credentials are set; without
\* --sign a pipeline is, once chmod has exited, terminated (in success when
\* chmod exited 0) and has run no signing or notarization tool.
C26_SigningOnlyWhenRequested ==
    \A i \in Pipelines :
        /\ <<i, "rcodesign sign">> \in toolCalls
               => (sign /\ startsWithDarwin(platforms[i]) /\ SigningCredentials \subseteq env)
        /\ ~sign
               => /\ \A t \in SigningTools : <<i, t>> \notin toolCalls
                  /\ pc[i] \notin SigningSteps
                  /\ (<<i, "chmod">> \in toolCalls /\ pc[i] # "chmod")
                         => (pc[i] \in {"done", "failed"} /\ (pc[i] = "failed" => exited))

C26_Witness ==
    \E i, j \in Pipelines :
        /\ sign /\ SigningCredentials \subseteq env
        /\ platforms[i] = DarwinArm64 /\ <<i, "rcodesign sign">> \in toolCalls
        /\ platforms[j] = LinuxX64 /\ pc[j] = "done"
        /\ \A t \in SigningTools : <<j, t>> \notin toolCalls

C28_UntarReadsToTheEnd ==
    /\ \A k \in 1..untarCall.read :
           archive[k].name # targetFile <=> k \in untarCall.resumed
    /\ (untarCall.outcome = "resolved" \/ untarCall.error = "not-found")
           => untarCall.read = Len(archive)
    /\ untarCall.outcome = "resolved"
           => \E k \in 1..Len(archive) : archive[k].name = targetFile

C28_Witness ==
    /\ Len(archive) = 2
    /\ archive[1].name = targetFile /\ archive[2].name # targetFile
    /\ untarCall.outcome = "resolved" /\ untarCall.read = 2
    /\ untarCall.resumed = {2}

\* C29: unzip opens a read stream only for an entry whose name is the
\* target name; the entries with another name that it has read have no
\* read stream opened.
C29_StreamOnlyForTarget ==
    /\ \A k \in unzipCall.opened : archive[k].name = targetFile
    /\ unzipCall.opened \subseteq 1..unzipCall.read
    /\ unzipCall.pc = "openReadStream" => unzipCall.read \in unzipCall.opened

C29_Witness ==
    /\ Len(archive) = 2
    /\ archive[1].name # targetFile /\ archive[2].name = targetFile
    /\ unzipCall.outcome = "resolved" /\ unzipCall.opened = {2}

\* C30: a getNodeBinary call whose download response was not ok or had no
\* body has failed without a result, and the cache directory has no file
\* for its key: the call found none, and a file that is there now is the
\* one another call for the same key has written after its own download.
C30_FailedDownloadWritesNothing ==
    \A c \in DOMAIN gb :
        gb[c].failedAt = "fetch"
        => /\ gb[c].pc = "failed" /\ gb[c].result = "none" /\ gb[c].seen = "absent"
           /\ \/ dirFile[gb[c].dir][keyOf(c)] = "absent"
              \/ \E d \in DOMAIN gb \ {c} :
                     /\ gb[d].dir = gb[c].dir /\ keyOf(d) = keyOf(c)
                     /\ gb[d].downloaded
                     /\ gb[d].pc \notin {"fetch", "extract"}
                     /\ gb[d].failedAt \notin {"fetch", "extract"}

C30_Witness ==
    \E c \in DOMAIN gb :
        /\ gb[c].failedAt = "fetch" /\ gb[c].pc = "failed"
        /\ gb[c].dir = "cacheDir" /\ gb[c].downloaded
        /\ dirFile["cacheDir"][keyOf(c)] = "absent"

\* The calls made have all returned, and at least one was made
allReturned == gb # <<>> /\ \A c \in DOMAIN gb : gb[c].pc = "returned"

\* The file of every call is in its directory, and complete and executable
\* when a call has written it
filePerKey ==
    \A c \in DOMAIN gb :
        /\ dirFile[gb[c].dir][keyOf(c)] \in PresentFileStates
        /\ gb[c].result = "populated" => dirFile[gb[c].dir][keyOf(c)] = "ok"
        /\ \A d \in DOMAIN gb :
               keyOf(c) = keyOf(d)
               => (gb[c].version = gb[d].version /\ gb[c].platform = gb[d].platform)

\* C31 (as claimed): after successful calls the directory holds the
\* executable file of each pair obtained and no staging directory.
C31_OneFilePerPairOnly ==
    allReturned => (filePerKey /\ staging = {})

\* C31 (amended): after successful calls the directory holds the executable
\* file of each pair obtained, and no staging directory but those whose
\* removal failed.
C31_OneFilePerPair ==
    allReturned
    => (filePerKey /\ \A c \in staging : gb[c].rmFailed /\ gb[c].result = "populated")

C31_Witness ==
    /\ allReturned /\ Len(gb) = 2
    /\ gb[1].platform # gb[2].platform /\ gb[1].dir = "cacheDir"
    /\ gb[1].result = "populated" /\ gb[2].result = "populated"
    /\ staging = {2}

\* C36: a call that made the staging directory and has ended, by returning
\* or by throwing, has removed it, unless the removal itself failed.
C36_StagingRemoved ==
    \A c \in DOMAIN gb :
        (gb[c].downloaded /\ gb[c].pc \in {"returned", "failed"})
        => (c \notin staging \/ gb[c].rmFailed)

\* C37: the step in which a call is served from the cache makes no staging
\* directory and leaves every file of the cache directory as it was, and a
\* call served from the cache has downloaded nothing and owns no staging
\* directory.
C37_HitLeavesCacheUnchanged ==
    [][\A c \in DOMAIN gb :
          /\ gb'[c].result = "hit" => (~gb'[c].downloaded /\ c \notin staging')
          /\ (gb'[c].result = "hit" /\ gb[c].result # "hit")
                 => /\ staging' = staging
                    /\ \A d \in Dirs, k \in CacheKeys :
                           dirFile[d][k] # "unknown" => dirFile'[d][k] = dirFile[d][k]]_vars

C37_Witness ==
    \E c, d \in DOMAIN gb :
        /\ c # d /\ gb[d].result = "populated" /\ gb[c].result = "hit"
        /\ keyOf(c) = keyOf(d) /\ gb[c].dir = "cacheDir" /\ gb[c].hasTarget
        /\ dirFile["cacheDir"][keyOf(c)] = "ok" /\ staging = {}

\* C34: a resolution that has failed stays the resolution of its alias: no
\* other one is started for the alias, so every call for it, also one made
\* after the failure, gets the promise that failed and with it the same
\* error, and the version index is fetched at most once for the alias.
C34_FailureMemoized ==
    \A k \in DOMAIN promises :
        (promises[k].state = "settled" /\ ~promises[k].result.ok)
        => LET alias == promises[k].alias
           IN  /\ VERSION_CACHE[alias] = k
               /\ \A m \in DOMAIN promises : promises[m].alias = alias => m = k
               /\ \A c \in DOMAIN calls :
                      calls[c].alias = alias
                      => (calls[c].promise = k /\ callResult(c) = promises[k].result)
               /\ indexFetches(alias) <= 1

C34_Witness ==
    \E c, d \in DOMAIN calls :
        /\ c < d /\ calls[c].alias = calls[d].alias
        /\ calls[c].found = "nothing" /\ calls[d].found = "settled"
        /\ calls[c].awaited /\ calls[d].awaited
        /\ ~callResult(d).ok /\ callResult(d).error = "fetch-failed"
        /\ callResult(c) = callResult(d)
        /\ indexFetches(calls[c].alias) = 1

\* C33: the SEA configuration and the blob are there from before the first
\* pipeline starts until every pipeline has terminated: nothing but the
\* removal that follows the last pipeline changes them, and a pipeline
\* that has yet to read the blob finds it.
C33_BlobOutlivesPipelines ==
    /\ interFiles \subseteq {SEA_CONFIG_JSON, SEA_BLOB}
    /\ interFiles # {SEA_CONFIG_JSON, SEA_BLOB}
           => (orch \in {"returned", "threw"} /\ \A i \in Pipelines : pc[i] = "done")
    /\ \A i \in Pipelines :
           pc[i] \in {"queued", "getNodeBinary", "readBlob"} => SEA_BLOB \in interFiles

C33_Witness ==
    /\ Len(platforms) = 2 /\ platforms[1] # platforms[2]
    /\ \A i \in Pipelines : pc[i] = "done" /\ outFile[platforms[i]] \in {"executable", "signed"}
    /\ orch = "returned" /\ interFiles = {}

\* C35: no two pipelines of a run write (copy to, inject into, chmod) the
\* same output binary file.
writesOutput(i) ==
    pc[i] \notin {"queued", "getNodeBinary", "failed"} \/ <<i, "chmod">> \in toolCalls
C35_OneWriterPerOutput ==
    \A i, j \in Pipelines :
        (i # j /\ writesOutput(i) /\ writesOutput(j)) => platforms[i] # platforms[j]

\* C32: the output directory is removed once, before anything is written
\* into it, and is there again when the bundle, the SEA configuration and
\* the blob are written and the pipelines start; a removal that fails does
\* not end the run (only a failing mkdir does).
WrittenByRun == {"bundle.cjs", SEA_CONFIG_JSON, SEA_BLOB}
C32_OutDirClearedOnce ==
    /\ prep.pc \in {"stat", "clean"}
           => (prep.rm = "none" /\ prep.outDir \cap WrittenByRun = {})
    /\ (prep.pc \in {"bundle", "config", "blob", "pipelines"}
            \/ prep.outDir \cap WrittenByRun # {})
           => (prep.rm # "none" /\ prep.mkdir = "made" /\ prep.outDirExists)
    /\ prep.rm = "removed" => "stale" \notin prep.outDir
    /\ (prep.pc = "threw" /\ prep.leftAt = "clean") => prep.mkdir = "failed"

C32_Witness ==
    /\ prep.pc = "pipelines" /\ prep.rm = "failed" /\ prep.outDirExists
    /\ {"stale", SEA_BLOB} \subseteq prep.outDir

====
